---------------------------- MODULE Spec2Model ----------------------------
(***************************************************************************)
(* Model of the pre-check-in handler of alloggiati-precheckin:             *)
(*   api/send-alloggiati-txt.js  (the current Vercel handler: rate limiter,  *)
(*   honeypot, validation, the Alloggiati Web fixed-width export, dispatch)*)
(*   netlify/functions/send-alloggiati-txt.js and its Vercel twin (the     *)
(*   older ddmmyy formatter).                                              *)
(*                                                                         *)
(* A JavaScript string is a sequence of one-character strings.  A          *)
(* JavaScript value is a record [t, v]: t is the value's type and v is     *)
(* what String(value) yields (empty for undefined and null, whose          *)
(* renderings ToStr supplies).                                             *)
(***************************************************************************)
EXTENDS Integers, Sequences, FiniteSets, TLC

VARIABLES
    \* a call of pad and padNum: the argument, the width, the two results
    padVal, padLen, padOut, padNumOut,
    \* the primary export loop: the validated body's guests, dataArrivo and
    \* numeroNotti, the loop index i, the lines pushed so far, the joined text
    guests, dataArrivo, numeroNotti, i, lines, finalTxt,
    \* the process: the rate limiter's map, Date.now(), process.env.RESEND_API_KEY
    \* and the handler invocations
    rateLimitMap, now, env, inv,
    \* bookkeeping: the claims' own count of each key's window, the POSTs
    \* received and the clock steps taken
    seen, nreq, ticks,
    \* two calls of the date reformatters: the arguments, what formatDate
    \* returns, what dateFormat returns and the 6-character slot made of it
    dateIn, fmtDate, oldDate, oldSlot,
    \* the secondary export: the birth-state table read from disk, baseId,
    \* the apartment and departure date of the body, the step reached, the
    \* pipe-delimited records, the XML elements
    statiIstat, baseId, appartamento, dataPartenza, phase,
    giesLines, xmlArrivi, xmlPartenze, xmlRoss

padVars == <<padVal, padLen, padOut, padNumOut>>
fmtVars == <<guests, dataArrivo, numeroNotti, i, lines, finalTxt>>

reqVars == <<rateLimitMap, now, env, inv, seen, nreq, ticks>>

dateVars == <<dateIn, fmtDate, oldDate, oldSlot>>
giesVars == <<statiIstat, baseId, appartamento, dataPartenza, phase,
              giesLines, xmlArrivi, xmlPartenze, xmlRoss>>
extVars == <<dateIn, fmtDate, oldDate, oldSlot,
             statiIstat, baseId, appartamento, dataPartenza, phase,
             giesLines, xmlArrivi, xmlPartenze, xmlRoss>>

vars == <<padVal, padLen, padOut, padNumOut,
          guests, dataArrivo, numeroNotti, i, lines, finalTxt,
          rateLimitMap, now, env, inv, seen, nreq, ticks,
          dateIn, fmtDate, oldDate, oldSlot,
          statiIstat, baseId, appartamento, dataPartenza, phase,
          giesLines, xmlArrivi, xmlPartenze, xmlRoss>>

----------------------------------------------------------------------------
(* JavaScript values                                                       *)

UNDEF == [t |-> "undefined", v |-> <<>>]
NULL == [t |-> "null", v |-> <<>>]
Str(s) == [t |-> "string", v |-> s]
\* a number, given by its decimal rendering
Num(s) == [t |-> "number", v |-> s]
\* an array or object, given by its String() rendering
Obj(s) == [t |-> "object", v |-> s]

\* the result of an operation that has not run
None == [t |-> "none", v |-> <<>>]

\* ToBoolean: what `!val`, `val || x` and `if (val)` test
Truthy(x) ==
    CASE x.t = "undefined" -> FALSE
      [] x.t = "null" -> FALSE
      [] x.t = "string" -> x.v # <<>>
      [] x.t = "number" -> x.v # <<"0">>
      [] OTHER -> TRUE

\* String(val)
ToStr(x) ==
    CASE x.t = "undefined" -> <<"u", "n", "d", "e", "f", "i", "n", "e", "d">>
      [] x.t = "null" -> <<"n", "u", "l", "l">>
      [] OTHER -> x.v

\* a || b
OrElse(a, b) == IF Truthy(a) THEN a ELSE b

Min(a, b) == IF a < b THEN a ELSE b

Fill(c, n) == [k \in 1..n |-> c]

\* s.substring(0, len)
substring0(s, len) == SubSeq(s, 1, Min(len, Len(s)))

\* s.padEnd(len, c)
padEnd(s, len, c) == IF Len(s) >= len THEN s ELSE s \o Fill(c, len - Len(s))

\* s.padStart(len, c)
padStart(s, len, c) == IF Len(s) >= len THEN s ELSE Fill(c, len - Len(s)) \o s

----------------------------------------------------------------------------
(* api/send-alloggiati-txt.js: field padding                               *)

\* the older variants' pad, which never truncates
padNoTruncate(val, len) == padEnd(ToStr(OrElse(val, Str(<<>>))), len, " ")

\* const pad = (val, len) => String(val || "").substring(0, len).padEnd(len, " ")
pad(val, len) == padEnd(substring0(ToStr(OrElse(val, Str(<<>>))), len), len, " ")

\* const padNum = (val, len) => String(val || "0").padStart(len, "0").substring(0, len)
padNum(val, len) == substring0(padStart(ToStr(OrElse(val, Str(<<"0">>))), len, "0"), len)

----------------------------------------------------------------------------
(* api/send-alloggiati-txt.js: the primary (Alloggiati Web) export          *)

LowerCase == <<"a", "b", "c", "d", "e", "f", "g", "h", "i", "j", "k", "l", "m",
               "n", "o", "p", "q", "r", "s", "t", "u", "v", "w", "x", "y", "z">>
UpperCase == <<"A", "B", "C", "D", "E", "F", "G", "H", "I", "J", "K", "L", "M",
               "N", "O", "P", "Q", "R", "S", "T", "U", "V", "W", "X", "Y", "Z">>

UpperChar(c) ==
    IF \E k \in 1..Len(LowerCase) : LowerCase[k] = c
    THEN UpperCase[CHOOSE k \in 1..Len(LowerCase) : LowerCase[k] = c]
    ELSE c

\* s.toUpperCase()
toUpperCase(s) == [k \in 1..Len(s) |-> UpperChar(s[k])]

\* s.split(sep): the segments between the occurrences of sep
RECURSIVE SplitFrom(_, _, _, _)
SplitFrom(s, sep, k, cur) ==
    IF k > Len(s) THEN <<cur>>
    ELSE IF s[k] = sep THEN <<cur>> \o SplitFrom(s, sep, k + 1, <<>>)
         ELSE SplitFrom(s, sep, k + 1, Append(cur, s[k]))

split(s, sep) == SplitFrom(s, sep, 1, <<>>)

\* const clean = (val) => (val === undefined || val === null || val === "undefined") ? "" : String(val)
clean(val) ==
    IF val.t = "undefined" \/ val.t = "null" \/ val = Str(ToStr(UNDEF))
    THEN <<>>
    ELSE ToStr(val)

\* g.field, for a guest that is an object
Field(g, name) == g[name]

\* determineTipoAlloggiato without the promotion of an explicit "16"
determineTipoNoPromotion(guest, index, totalGuests) ==
    LET tipo == clean(Field(guest, "tipoAlloggiato"))
    IN IF tipo = <<>>
       THEN IF index = 0 /\ totalGuests > 1 THEN <<"1", "7">>
            ELSE IF index = 0 THEN <<"1", "6">> ELSE <<"1", "9">>
       ELSE tipo

determineTipoAlloggiato(guest, index, totalGuests) ==
    LET tipo == clean(Field(guest, "tipoAlloggiato"))
    IN IF tipo = <<>>
       THEN IF index = 0 /\ totalGuests > 1 THEN <<"1", "7">>
            ELSE IF index = 0 THEN <<"1", "6">> ELSE <<"1", "9">>
       ELSE IF index = 0 /\ totalGuests > 1 /\ tipo = <<"1", "6">>
            THEN <<"1", "7">>
            ELSE tipo

TenSpaces == Fill(" ", 10)

\* formatDate(d) for a string d: gg/mm/aaaa
formatDate(d) ==
    IF d = <<>> THEN TenSpaces
    ELSE LET parts == split(d, "-")
         IN IF Len(parts) # 3 THEN TenSpaces
            ELSE parts[3] \o <<"/">> \o parts[2] \o <<"/">> \o parts[1]

\* mapTipoDoc(tipo) for a string tipo
mapTipoDoc(tipo) ==
    LET up == toUpperCase(tipo)
    IN CASE up = <<"P", "A", "S", "S">> -> <<"P", "A", "S", "A", "P">>
         [] up = <<"I", "D">> -> <<"I", "D", "E", "N", "T">>
         [] up = <<"D", "L">> -> <<"P", "A", "T", "E", "N">>
         [] OTHER -> tipo

ITALY_CODE == <<"1", "0", "0", "0", "0", "0", "1", "0", "0">>

\* isFirstGuest, as a broken loop would have it: true of every guest
isFirstGuestAlways(index) == TRUE

\* const isFirstGuest = (i === 0)
isFirstGuest(index) == index = 0

\* isItalian, as a comparison that also takes a missing code for Italian
isItalianOrMissing(cittadinanzaCode) ==
    cittadinanzaCode = ITALY_CODE \/ cittadinanzaCode = <<>>

\* const isItalian = cittadinanzaCode === ITALY_CODE
isItalian(cittadinanzaCode) == cittadinanzaCode = ITALY_CODE

\* cittadinanzaCode with the default the PRE record gives the provenance state
cittadinanzaCodeDefaultItaly(g) ==
    IF clean(Field(g, "cittadinanza")) = <<>> THEN ITALY_CODE
    ELSE clean(Field(g, "cittadinanza"))

\* const cittadinanzaCode = clean(g.cittadinanza) || ""
cittadinanzaCodeOf(g) == clean(Field(g, "cittadinanza"))

\* luogoRilTxt: the issue place after the foreign guest's fallback
luogoRilTxt(luogoRil, cittadinanzaCode) ==
    IF ~isItalian(cittadinanzaCode) /\ luogoRil = <<>> /\ cittadinanzaCode # <<>>
    THEN cittadinanzaCode
    ELSE luogoRil

\* the 14 fields of one line of the loop body, in the order they are concatenated
SlotNames == <<"tipo", "dataArrivo", "permanenza", "cognome", "nome", "sesso",
               "dataNascita", "comuneNascita", "provinciaNascita", "statoNascita",
               "cittadinanza", "tipoDoc", "numDoc", "luogoRil">>

\* one iteration of the loop over guests: the line's fields for guest g at index
LineSlots(g, index, totalGuests, arrivo, notti) ==
    LET tipoAlloggiato == determineTipoAlloggiato(g, index, totalGuests)
        sesso == IF clean(Field(g, "sesso")) = <<>> THEN <<" ">>
                 ELSE clean(Field(g, "sesso"))
        tipoDoc == IF isFirstGuest(index)
                   THEN mapTipoDoc(clean(Field(g, "tipoDocumento"))) ELSE <<>>
        numDoc == IF isFirstGuest(index)
                  THEN toUpperCase(clean(Field(g, "numeroDocumento"))) ELSE <<>>
        luogoRil == IF isFirstGuest(index)
                    THEN clean(Field(g, "luogoRilascio")) ELSE <<>>
        cittadinanzaCode == cittadinanzaCodeOf(g)
        italian == isItalian(cittadinanzaCode)
        giorni == OrElse(OrElse(Str(clean(Field(g, "giorni"))), notti), Num(<<"1">>))
    IN [tipo |-> pad(Str(tipoAlloggiato), 2),
        dataArrivo |-> formatDate(ToStr(arrivo)),
        permanenza |-> padNum(giorni, 2),
        cognome |-> pad(Str(toUpperCase(clean(Field(g, "cognome")))), 50),
        nome |-> pad(Str(toUpperCase(clean(Field(g, "nome")))), 30),
        sesso |-> pad(Str(sesso), 1),
        dataNascita |-> formatDate(clean(Field(g, "dataNascita"))),
        comuneNascita |-> IF italian THEN pad(Str(clean(Field(g, "comuneNascita"))), 9)
                          ELSE pad(Str(<<>>), 9),
        provinciaNascita |->
            IF italian
            THEN pad(Str(toUpperCase(clean(Field(g, "provinciaNascita")))), 2)
            ELSE pad(Str(<<>>), 2),
        statoNascita |-> IF italian THEN pad(Str(clean(Field(g, "statoNascita"))), 9)
                         ELSE pad(Str(cittadinanzaCode), 9),
        cittadinanza |-> pad(Str(cittadinanzaCode), 9),
        tipoDoc |-> pad(Str(tipoDoc), 5),
        numDoc |-> pad(Str(numDoc), 20),
        luogoRil |-> pad(Str(luogoRilTxt(luogoRil, cittadinanzaCode)), 9)]

\* the line as the code concatenates it
RECURSIVE ConcatSlots(_, _)
ConcatSlots(slots, k) ==
    IF k > Len(SlotNames) THEN <<>>
    ELSE slots[SlotNames[k]] \o ConcatSlots(slots, k + 1)

LineText(slots) == ConcatSlots(slots, 1)

\* a.join("\r\n")
RECURSIVE joinCRLF(_)
joinCRLF(a) ==
    IF Len(a) = 0 THEN <<>>
    ELSE IF Len(a) = 1 THEN a[1]
         ELSE a[1] \o <<"\r", "\n">> \o joinCRLF(Tail(a))

----------------------------------------------------------------------------
(* api/send-alloggiati-txt.js: rate limiter                                *)

\* const RATE_LIMIT_WINDOW = 60 * 60 * 1000
RATE_LIMIT_WINDOW == 3600000
\* const RATE_LIMIT_MAX = 10
RATE_LIMIT_MAX == 10

\* rateLimitMap.set(ip, record)
MapSet(map, ip, record) == (ip :> record) @@ map

\* getRateLimitKey(req): the first forwarded-for address, else the socket's, else 'unknown'
getRateLimitKey(req) ==
    IF Len(req.forwarded) > 0 THEN req.forwarded[1]
    ELSE IF req.remoteAddress # "" THEN req.remoteAddress
         ELSE "unknown"

\* checkRateLimit rejecting at the maximum instead of above it
checkRateLimitOffByOne(map, ip, t) ==
    IF ip \notin DOMAIN map \/ t - map[ip].firstRequest > RATE_LIMIT_WINDOW
    THEN [map |-> MapSet(map, ip, [count |-> 1, firstRequest |-> t]),
          allowed |-> TRUE, remaining |-> RATE_LIMIT_MAX - 1]
    ELSE LET count == map[ip].count + 1
             next == MapSet(map, ip, [map[ip] EXCEPT !.count = count])
         IN IF count >= RATE_LIMIT_MAX
            THEN [map |-> next, allowed |-> FALSE, remaining |-> 0]
            ELSE [map |-> next, allowed |-> TRUE, remaining |-> RATE_LIMIT_MAX - count]

\* checkRateLimit that counts on a copy of the record and never stores it
checkRateLimitLostUpdate(map, ip, t) ==
    IF ip \notin DOMAIN map \/ t - map[ip].firstRequest > RATE_LIMIT_WINDOW
    THEN [map |-> MapSet(map, ip, [count |-> 1, firstRequest |-> t]),
          allowed |-> TRUE, remaining |-> RATE_LIMIT_MAX - 1]
    ELSE LET count == map[ip].count + 1
         IN IF count > RATE_LIMIT_MAX
            THEN [map |-> map, allowed |-> FALSE, remaining |-> 0]
            ELSE [map |-> map, allowed |-> TRUE, remaining |-> RATE_LIMIT_MAX - count]

\* checkRateLimit(ip) at Date.now() = t: the map it leaves and what it returns
checkRateLimit(map, ip, t) ==
    IF ip \notin DOMAIN map
    THEN [map |-> MapSet(map, ip, [count |-> 1, firstRequest |-> t]),
          allowed |-> TRUE, remaining |-> RATE_LIMIT_MAX - 1]
    ELSE IF t - map[ip].firstRequest > RATE_LIMIT_WINDOW
         THEN [map |-> MapSet(map, ip, [count |-> 1, firstRequest |-> t]),
               allowed |-> TRUE, remaining |-> RATE_LIMIT_MAX - 1]
         ELSE LET count == map[ip].count + 1
                  next == MapSet(map, ip, [map[ip] EXCEPT !.count = count])
              IN IF count > RATE_LIMIT_MAX
                 THEN [map |-> next, allowed |-> FALSE, remaining |-> 0]
                 ELSE [map |-> next, allowed |-> TRUE,
                       remaining |-> RATE_LIMIT_MAX - count]

----------------------------------------------------------------------------
(* api/send-alloggiati-txt.js: the handler up to the outbound call          *)

\* guests.length > 5 is rejected
MaxGuests == 5

\* the invocations the process may be running at once
Procs == {1, 2}

Digits == {"0", "1", "2", "3", "4", "5", "6", "7", "8", "9"}

\* /^\d{4}-\d{2}-\d{2}$/.test(val): the pattern on String(val)
IsIsoDate(val) ==
    LET s == ToStr(val)
    IN /\ Len(s) = 10
       /\ \A k \in 1..10 : IF k \in {5, 8} THEN s[k] = "-" ELSE s[k] \in Digits

\* s.trim().length === 0
TrimIsEmpty(s) == \A k \in 1..Len(s) : s[k] \in {" ", "\t", "\n", "\r"}

\* Array.isArray(val): an array is [t |-> "array", v |-> its elements]
IsArray(val) == val.t = "array"
Arr(elements) == [t |-> "array", v |-> elements]

\* res.status(status).json({ status: ok, error, message, resend }): resend says
\* whether the body carries the upstream's JSON.  (The messages are written
\* here without their accents.)
Response(status, ok, error, message, resend) ==
    [status |-> status, ok |-> ok, error |-> error, message |-> message,
     resend |-> resend]
NoResponse == Response(0, "", "", "", FALSE)

\* the catch block: 500 "Server error"
ServerError ==
    Response(500, "", "Server error",
             "Si e' verificato un errore. Riprova piu' tardi.", FALSE)

\* the validation of lines 80-99 that lets a request with 6 guests through
ValidationErrorOffByOne(body) ==
    IF ~Truthy(body.appartamento) \/ body.appartamento.t # "string"
          \/ TrimIsEmpty(body.appartamento.v)
    THEN "Invalid apartment"
    ELSE IF ~Truthy(body.dataArrivo) \/ ~IsIsoDate(body.dataArrivo)
    THEN "Invalid arrival date format"
    ELSE IF ~Truthy(body.dataPartenza) \/ ~IsIsoDate(body.dataPartenza)
    THEN "Invalid departure date format"
    ELSE IF ~Truthy(body.guests) \/ ~IsArray(body.guests) \/ Len(body.guests.v) = 0
    THEN "Missing required fields: guests"
    ELSE IF Len(body.guests.v) > MaxGuests + 1
    THEN "Maximum 5 guests allowed"
    ELSE ""

\* the validation of lines 80-99: the error of the first check that fails, "" if none
ValidationError(body) ==
    IF ~Truthy(body.appartamento) \/ body.appartamento.t # "string"
          \/ TrimIsEmpty(body.appartamento.v)
    THEN "Invalid apartment"
    ELSE IF ~Truthy(body.dataArrivo) \/ ~IsIsoDate(body.dataArrivo)
    THEN "Invalid arrival date format"
    ELSE IF ~Truthy(body.dataPartenza) \/ ~IsIsoDate(body.dataPartenza)
    THEN "Invalid departure date format"
    ELSE IF ~Truthy(body.guests) \/ ~IsArray(body.guests) \/ Len(body.guests.v) = 0
    THEN "Missing required fields: guests"
    ELSE IF Len(body.guests.v) > MaxGuests
    THEN "Maximum 5 guests allowed"
    ELSE ""

\* lines 135-212 for a body that formats: finalTxt
PrimaryExport(body) ==
    joinCRLF([k \in 1..Len(body.guests.v) |->
                LineText(LineSlots(body.guests.v[k], k - 1, Len(body.guests.v),
                                   body.dataArrivo, body.numeroNotti))])

\* an invocation of handler: where it stands, its request, whether it has
\* reached the formatting, the attachment once joined, the outbound calls it
\* has issued, the upstream answer, the X-RateLimit-Remaining header, its
\* response; and, for the claims, the time it ran at, its ordinal among the
\* POSTs of its key's window, the size of the key's previous window and the
\* key's record as checkRateLimit left it
NoRequest == [method |-> "", forwarded |-> <<>>, remoteAddress |-> "", body |-> UNDEF]
NoUpstream == [kind |-> "none", status |-> 0, json |-> FALSE]
NoRecord == [count |-> 0, firstRequest |-> 0]
Idle ==
    [pc |-> "idle", req |-> NoRequest, reached |-> FALSE, txt |-> None, sends |-> 0,
     upstream |-> NoUpstream, remaining |-> -1, resp |-> NoResponse,
     at |-> 0, ord |-> 0, prev |-> 0, rec |-> NoRecord]

\* the invocation after the handler has returned resp
Returned(invocation, resp) == [invocation EXCEPT !.pc = "done", !.resp = resp]

\* lines 101-652 for a validated body: the exports, then the call of fetch
FormatAndSend(invocation, body) ==
    IF (\E k \in 1..Len(body.guests.v) : body.guests.v[k] = NULL)
          \/ body.dataArrivo.t # "string"
    THEN Returned([invocation EXCEPT !.reached = TRUE], ServerError)
    ELSE IF body.dataPartenza.t # "string"
    THEN Returned([invocation EXCEPT !.reached = TRUE,
                                     !.txt = Str(PrimaryExport(body))], ServerError)
    ELSE [invocation EXCEPT !.pc = "fetch", !.reached = TRUE,
                            !.txt = Str(PrimaryExport(body)), !.sends = @ + 1]

\* the handler with the secret checked before the honeypot
AfterAdmissionSecretFirst(invocation, body, apiKey) ==
    IF ~Truthy(apiKey)
    THEN Returned(invocation, Response(500, "", "Missing RESEND_API_KEY", "", FALSE))
    ELSE IF body = UNDEF \/ body = NULL
    THEN Returned(invocation, ServerError)
    ELSE IF Truthy(body.honeypot)
    THEN Returned(invocation, Response(200, "ok", "", "", FALSE))
    ELSE IF ValidationError(body) # ""
    THEN Returned(invocation, Response(400, "", ValidationError(body), "", FALSE))
    ELSE FormatAndSend(invocation, body)

\* the handler with the secret checked only once the exports are built
AfterAdmissionLateSecret(invocation, body, apiKey) ==
    IF body = UNDEF \/ body = NULL
    THEN Returned(invocation, ServerError)
    ELSE IF Truthy(body.honeypot)
    THEN Returned(invocation, Response(200, "ok", "", "", FALSE))
    ELSE IF ValidationError(body) # ""
    THEN Returned(invocation, Response(400, "", ValidationError(body), "", FALSE))
    ELSE IF ~Truthy(apiKey)
    THEN Returned([invocation EXCEPT !.reached = TRUE],
                  Response(500, "", "Missing RESEND_API_KEY", "", FALSE))
    ELSE FormatAndSend(invocation, body)

\* lines 60-652: an admitted POST from the honeypot check to the await of fetch
AfterAdmission(invocation, body, apiKey) ==
    IF body = UNDEF \/ body = NULL
    THEN Returned(invocation, ServerError)
    ELSE IF Truthy(body.honeypot)
    THEN Returned(invocation, Response(200, "ok", "", "", FALSE))
    ELSE IF ~Truthy(apiKey)
    THEN Returned(invocation, Response(500, "", "Missing RESEND_API_KEY", "", FALSE))
    ELSE IF ValidationError(body) # ""
    THEN Returned(invocation, Response(400, "", ValidationError(body), "", FALSE))
    ELSE FormatAndSend(invocation, body)

\* the response to an upstream answer, were the upstream body passed on
\* (as the older variants do with details: resendJson)
UpstreamResponseWithDetails(upstream) ==
    IF ~upstream.json THEN ServerError
    ELSE IF upstream.status \notin 200..299
    THEN Response(500, "", "Email sending failed",
                  "Errore nell'invio dell'email. Riprova piu' tardi.", TRUE)
    ELSE Response(200, "ok", "", "Email sent successfully", TRUE)

\* lines 654-681: the response once resendRes.json() has settled
UpstreamResponse(upstream) ==
    IF ~upstream.json THEN ServerError
    ELSE IF upstream.status \notin 200..299
    THEN Response(500, "", "Email sending failed",
                  CASE upstream.status = 429 ->
                          "Troppe richieste. Riprova tra qualche minuto."
                    [] upstream.status \in {401, 403} ->
                          "Errore di configurazione. Contatta l'amministratore."
                    [] OTHER -> "Errore nell'invio dell'email. Riprova piu' tardi.",
                  FALSE)
    ELSE Response(200, "ok", "", "Email sent successfully", TRUE)

Max(a, b) == IF a > b THEN a ELSE b

\* the claims' own count of a key's window: its start, the POSTs in it so
\* far, the POSTs the key's previous window had, and the POSTs of the
\* window that went past the rate-limit check
SeenAfterPost(seenMap, ip, t, allowed) ==
    LET one == IF allowed THEN 1 ELSE 0
    IN IF ip \notin DOMAIN seenMap
       THEN MapSet(seenMap, ip, [start |-> t, n |-> 1, prev |-> 0, adm |-> one])
       ELSE IF t - seenMap[ip].start > RATE_LIMIT_WINDOW
            THEN MapSet(seenMap, ip, [start |-> t, n |-> 1, prev |-> seenMap[ip].n,
                                      adm |-> one])
            ELSE MapSet(seenMap, ip, [seenMap[ip] EXCEPT !.n = @ + 1,
                                                         !.adm = @ + one])

\* handler(req, res) on invocation p, from its entry to its return or to the
\* await of fetch
Receive(p, req) ==
    /\ inv[p].pc \in {"idle", "done"}
    /\ LET entered == [Idle EXCEPT !.req = req, !.at = now]
       IN IF req.method # "POST"
          THEN /\ inv' = [inv EXCEPT ![p] =
                            Returned(entered,
                                     Response(405, "", "Method not allowed", "", FALSE))]
               /\ UNCHANGED <<rateLimitMap, seen>>
          ELSE LET clientIP == getRateLimitKey(req)
                   rateCheck == checkRateLimit(rateLimitMap, clientIP, now)
                   seenNext == SeenAfterPost(seen, clientIP, now, rateCheck.allowed)
                   checked == [entered EXCEPT
                                  !.remaining = Max(0, rateCheck.remaining),
                                  !.ord = seenNext[clientIP].n,
                                  !.prev = seenNext[clientIP].prev,
                                  !.rec = rateCheck.map[clientIP]]
               IN /\ rateLimitMap' = rateCheck.map
                  /\ seen' = seenNext
                  /\ inv' = [inv EXCEPT ![p] =
                               IF ~rateCheck.allowed
                               THEN Returned(checked,
                                             Response(429, "", "Too many requests",
                                                      "Troppe richieste. Riprova piu' tardi.",
                                                      FALSE))
                               ELSE AfterAdmission(checked, req.body, env)]
    /\ nreq' = IF req.method = "POST" THEN nreq + 1 ELSE nreq
    /\ UNCHANGED <<now, ticks, env>>
    /\ UNCHANGED <<padVars, fmtVars>>
    /\ UNCHANGED extVars

\* await fetch(RESEND_URL, ...) settles: it rejects, or yields a response
FetchSettles(p, upstream) ==
    /\ inv[p].pc = "fetch"
    /\ inv' = [inv EXCEPT ![p] =
                 IF upstream.kind = "reject"
                 THEN Returned([@ EXCEPT !.upstream = upstream], ServerError)
                 ELSE [@ EXCEPT !.pc = "json", !.upstream = upstream]]
    /\ UNCHANGED <<rateLimitMap, seen, now, ticks, env, nreq>>
    /\ UNCHANGED <<padVars, fmtVars>>
    /\ UNCHANGED extVars

\* await resendRes.json() settles, and the handler returns
JsonSettles(p) ==
    /\ inv[p].pc = "json"
    /\ inv' = [inv EXCEPT ![p] = Returned(@, UpstreamResponse(@.upstream))]
    /\ UNCHANGED <<rateLimitMap, seen, now, ticks, env, nreq>>
    /\ UNCHANGED <<padVars, fmtVars>>
    /\ UNCHANGED extVars

\* Date.now() moves on by d milliseconds
Tick(d) ==
    /\ now' = now + d
    /\ ticks' = ticks + 1
    /\ UNCHANGED <<rateLimitMap, seen, inv, env, nreq>>
    /\ UNCHANGED <<padVars, fmtVars>>
    /\ UNCHANGED extVars

----------------------------------------------------------------------------
(* Padding on its own: the inputs are drawn in PadInit                     *)

MaxStrLen == 4
MaxWidth == 3

PadAlphabet == {"a", " ", "0"}

RECURSIVE StringsUpTo(_, _)
StringsUpTo(A, n) ==
    IF n = 0 THEN {<<>>}
    ELSE LET shorter == StringsUpTo(A, n - 1)
         IN shorter \cup {Append(s, c) : s \in shorter, c \in A}

PadValues ==
    {UNDEF, NULL, Num(<<"0">>), Num(<<"7">>), Num(<<"1", "2", "3", "4">>), Obj(<<"x", ",", "y">>)}
        \cup {Str(s) : s \in StringsUpTo(PadAlphabet, MaxStrLen)}

DateIdle ==
    /\ dateIn = <<UNDEF, UNDEF>>
    /\ fmtDate = <<None, None>>
    /\ oldDate = <<None, None>>
    /\ oldSlot = <<None, None>>

GiesIdle ==
    /\ statiIstat = None
    /\ baseId = 0
    /\ appartamento = UNDEF
    /\ dataPartenza = UNDEF
    /\ phase = "idle"
    /\ giesLines = <<>>
    /\ xmlArrivi = <<>>
    /\ xmlPartenze = <<>>
    /\ xmlRoss = None

PadIdle ==
    /\ padVal = UNDEF
    /\ padLen = 0
    /\ padOut = None
    /\ padNumOut = None

EmptyMap == [ip \in {} |-> NoRecord]

ReqIdle ==
    /\ rateLimitMap = EmptyMap
    /\ now = 0
    /\ env = UNDEF
    /\ inv = [p \in Procs |-> Idle]
    /\ seen = EmptyMap
    /\ nreq = 0
    /\ ticks = 0

FmtIdle ==
    /\ guests = <<>>
    /\ dataArrivo = UNDEF
    /\ numeroNotti = UNDEF
    /\ i = 0
    /\ lines = <<>>
    /\ finalTxt = None

PadInit ==
    /\ padVal \in PadValues
    /\ padLen \in 0..MaxWidth
    /\ padOut = None
    /\ padNumOut = None
    /\ FmtIdle
    /\ ReqIdle
    /\ DateIdle
    /\ GiesIdle

CallPad ==
    /\ padOut = None
    /\ padOut' = Str(pad(padVal, padLen))
    /\ UNCHANGED <<padVal, padLen, padNumOut>>
    /\ UNCHANGED <<fmtVars, reqVars>>
    /\ UNCHANGED extVars

CallPadNum ==
    /\ padNumOut = None
    /\ padNumOut' = Str(padNum(padVal, padLen))
    /\ UNCHANGED <<padVal, padLen, padOut>>
    /\ UNCHANGED <<fmtVars, reqVars>>
    /\ UNCHANGED extVars

PadNext == CallPad \/ CallPadNum

SpecPad == PadInit /\ [][PadNext]_vars

\* what pad and padNum turn their argument into before padding
PadText == ToStr(OrElse(padVal, Str(<<>>)))
PadNumText == ToStr(OrElse(padVal, Str(<<"0">>)))

(* C4: pad(value, W) has length exactly W: the input cut to W when longer,  *)
(* spaces appended when shorter; padNum(value, W) has length exactly W,    *)
(* zeros put in front when the input is shorter than W.                    *)
C4_PadExactWidth ==
    /\ padOut # None =>
        /\ Len(padOut.v) = padLen
        /\ \A k \in 1..padLen :
              padOut.v[k] = IF k <= Len(PadText) THEN PadText[k] ELSE " "
    /\ padNumOut # None =>
        /\ Len(padNumOut.v) = padLen
        /\ Len(PadNumText) < padLen =>
              \A k \in 1..padLen :
                 padNumOut.v[k] =
                    IF k <= padLen - Len(PadNumText) THEN "0"
                    ELSE PadNumText[k - (padLen - Len(PadNumText))]

\* both have run on an input longer than the width, and the width is not 0
C4_Witness_Truncated ==
    /\ padOut # None
    /\ padNumOut # None
    /\ padLen > 0
    /\ Len(PadText) > padLen

----------------------------------------------------------------------------
(* The primary export loop on its own: FmtInit draws a body that has passed *)
(* validation (1 to MaxGuests guests, dataArrivo of the form YYYY-MM-DD)    *)

GuestFields == {"tipoAlloggiato", "sesso", "tipoDocumento", "numeroDocumento",
                "luogoRilascio", "cittadinanza", "comuneNascita",
                "provinciaNascita", "statoNascita", "giorni", "cognome", "nome",
                "dataNascita", "comuneResidenza", "statoNascitaNome"}

\* a guest object with no property set
EmptyGuest == [f \in GuestFields |-> UNDEF]

RoleValues ==
    {UNDEF, NULL, Str(<<"u", "n", "d", "e", "f", "i", "n", "e", "d">>),
     Str(<<>>), Str(<<"1", "6">>), Str(<<"1", "7">>), Str(<<"1", "8">>),
     Str(<<"1", "9">>), Str(<<"2", "0">>), Num(<<"1", "6">>), Str(<<"1">>),
     Str(<<"1", "6", "0">>), Str(<<"9", "9">>)}

CitizenValues ==
    {UNDEF, Str(<<>>), Str(<<"1", "0", "0", "0", "0", "0", "1", "0", "0">>),
     Num(<<"1", "0", "0", "0", "0", "0", "1", "0", "0">>),
     Str(<<"1", "0", "0", "0", "0", "0", "2", "1", "5">>), Str(<<"F", "R">>)}

ComuneValues ==
    {UNDEF, Str(<<"4", "0", "5", "0", "2", "7", "0", "4", "2">>),
     Str(<<"a", "b">>)}

ProvinciaValues ==
    {UNDEF, Str(<<"v", "e">>), Str(<<"V", "E", "N">>)}

StatoValues ==
    {UNDEF, Str(<<"1", "0", "0", "0", "0", "0", "1", "0", "0">>),
     Str(<<"1", "0", "0", "0", "0", "0", "2", "1", "5">>)}

TipoDocValues ==
    {UNDEF, Str(<<"p", "a", "s", "s">>), Str(<<"I", "D">>),
     Str(<<"I", "D", "E", "N", "T">>), Str(<<"D", "l">>)}

NumDocValues ==
    {UNDEF, Str(<<"c", "a", "1", "2", "3", "z", "z">>)}

LuogoValues ==
    {UNDEF, Str(<<>>), Str(<<"4", "0", "5", "0", "2", "7", "0", "4", "2">>),
     Str(<<" ">>)}

SessoValues ==
    {UNDEF, Str(<<"1">>), Str(<<"2">>)}

DataNascitaValues ==
    {UNDEF, Str(<<"1", "9", "9", "0", "-", "0", "5", "-", "2", "0">>),
     Str(<<"1", "9", "9", "0", "-", "5", "-", "2", "0">>),
     Str(<<"1", "9", "9", "0">>), Str(<<"1", "-", "2", "-", "3", "-", "4">>)}

GiorniValues ==
    {UNDEF, Str(<<"3">>), Num(<<"1", "2">>), Str(<<"1", "2", "3">>)}

CognomeValues ==
    {UNDEF, Str(<<"R", "o", "s", "s", "i">>),
     Str(<<"D", "e", "'", " ", "M", "e", "d", "i", "c", "i", "-", "v", "o", "n", " ", "H", "a", "b", "s", "b", "u", "r", "g", "-", "L", "o", "t", "h", "r", "i", "n", "g", "e", "n", " ", "d", "i", " ", "B", "o", "r", "b", "o", "n", "e", " ", "d", "e", "l", "l", "e", " ", "D", "u", "e", " ", "S", "i", "c", "i", "l", "i", "e">>)}


\* guests that differ in the role code
RoleGuests ==
    {[EmptyGuest EXCEPT !.tipoAlloggiato = r, !.cittadinanza = c] :
        r \in RoleValues, c \in {UNDEF, Str(ITALY_CODE)}}

\* guests that differ in citizenship and the birth fields
BirthGuests ==
    {[EmptyGuest EXCEPT !.cittadinanza = c, !.comuneNascita = m,
                        !.provinciaNascita = p, !.statoNascita = s] :
        c \in CitizenValues, m \in ComuneValues, p \in ProvinciaValues,
        s \in StatoValues}

\* guests that differ in citizenship and the document fields
DocGuests ==
    {[EmptyGuest EXCEPT !.cittadinanza = c, !.tipoDocumento = d,
                        !.numeroDocumento = n, !.luogoRilascio = l] :
        c \in CitizenValues, d \in TipoDocValues, n \in NumDocValues,
        l \in LuogoValues}

\* guests with neither role nor citizenship that differ in the other fields
PlainGuests ==
    {[EmptyGuest EXCEPT !.sesso = x, !.dataNascita = b, !.giorni = d,
                        !.cognome = c, !.nome = c] :
        x \in SessoValues, b \in DataNascitaValues, d \in GiorniValues,
        c \in CognomeValues}

GuestPool == RoleGuests \cup BirthGuests \cup DocGuests \cup PlainGuests

\* the other guests of a submission
FillerGuest ==
    [EmptyGuest EXCEPT !.cognome = Str(<<"B", "i", "a", "n", "c", "h", "i">>), !.nome = Str(<<"A", "n", "n", "a">>),
                        !.sesso = Str(<<"2">>), !.dataNascita = Str(<<"1", "9", "8", "5", "-", "1", "2", "-", "0", "1">>),
                        !.cittadinanza = Str(ITALY_CODE)]

\* submissions of n guests: one guest of the pool at position f, fillers elsewhere
SubmissionsOf(n) ==
    {[k \in 1..n |-> IF k = f THEN g ELSE FillerGuest] : f \in 1..n, g \in GuestPool}

Submissions == UNION {SubmissionsOf(n) : n \in 1..MaxGuests}

ValidArrivo == Str(<<"2", "0", "2", "4", "-", "0", "7", "-", "0", "1">>)

FmtInit ==
    /\ guests \in Submissions
    /\ dataArrivo = ValidArrivo
    /\ numeroNotti \in {UNDEF, Num(<<"2">>)}
    /\ i = 0
    /\ lines = <<>>
    /\ finalTxt = None
    /\ PadIdle
    /\ ReqIdle
    /\ DateIdle
    /\ GiesIdle

\* for (let i = 0; i < guests.length; i++) { ... lines.push(line); }
LoopBody ==
    /\ finalTxt = None
    /\ i < Len(guests)
    /\ lines' = Append(lines, LineSlots(guests[i + 1], i, Len(guests), dataArrivo, numeroNotti))
    /\ i' = i + 1
    /\ UNCHANGED <<guests, dataArrivo, numeroNotti, finalTxt>>
    /\ UNCHANGED <<padVars, reqVars>>
    /\ UNCHANGED extVars

\* const finalTxt = lines.join("\r\n")
JoinLines ==
    /\ finalTxt = None
    /\ i = Len(guests)
    /\ finalTxt' = Str(joinCRLF([k \in 1..Len(lines) |-> LineText(lines[k])]))
    /\ UNCHANGED <<guests, dataArrivo, numeroNotti, i, lines>>
    /\ UNCHANGED <<padVars, reqVars>>
    /\ UNCHANGED extVars

FmtNext == LoopBody \/ JoinLines

SpecFormat == FmtInit /\ [][FmtNext]_vars

\* the guest of line k (index k - 1) and its cleaned fields
GuestOf(k) == guests[k]
NoValue(val) == val = UNDEF \/ val = NULL \/ val = Str(ToStr(UNDEF)) \/ val = Str(<<>>)
Blank(n) == Fill(" ", n)
\* a text as a slot of width w holds it: cut to w, spaces after it
InSlot(s, w) == padEnd(substring0(s, w), w, " ")
\* a property's text, empty when the property holds no value
Text(val) == IF NoValue(val) THEN <<>> ELSE ToStr(val)

\* the role the claim gives guest g at index, among total guests
ClaimedRole(g, index, total) ==
    IF NoValue(g.tipoAlloggiato)
    THEN CASE index = 0 /\ total > 1 -> <<"1", "7">>
           [] index = 0 /\ total = 1 -> <<"1", "6">>
           [] OTHER -> <<"1", "9">>
    ELSE IF ToStr(g.tipoAlloggiato) = <<"1", "6">> /\ index = 0 /\ total > 1
         THEN <<"1", "7">>
         ELSE ToStr(g.tipoAlloggiato)

(* C1: the role written for the guest at index i of n is the explicit role  *)
(* code when one is given, an explicit "16" at i = 0 with n > 1 becoming    *)
(* "17"; with no role given it is "17" (i = 0, n > 1), "16" (i = 0, n = 1)  *)
(* or "19" (i > 0).  The role slot is that code at the slot's 2 characters. *)
C1_EffectiveRole ==
    \A k \in 1..Len(lines) :
        /\ determineTipoAlloggiato(GuestOf(k), k - 1, Len(guests))
              = ClaimedRole(GuestOf(k), k - 1, Len(guests))
        /\ lines[k].tipo
              = InSlot(ClaimedRole(GuestOf(k), k - 1, Len(guests)), 2)

\* a first guest of several with an explicit "16" has been written as "17",
\* and a later guest with no role as "19"
C1_Witness_Promoted ==
    /\ Len(guests) > 1
    /\ Len(lines) = Len(guests)
    /\ guests[1].tipoAlloggiato = Str(<<"1", "6">>)
    /\ lines[1].tipo = <<"1", "7">>
    /\ NoValue(guests[2].tipoAlloggiato)
    /\ lines[2].tipo = <<"1", "9">>

(* C2: for every guest at index i > 0, whatever its fields, the             *)
(* document-type, document-number and issue-place slots are blank.          *)
C2_DependentsDocBlank ==
    \A k \in 2..Len(lines) :
        /\ lines[k].tipoDoc = Blank(5)
        /\ lines[k].numDoc = Blank(20)
        /\ lines[k].luogoRil = Blank(9)

C10_Case ==
    /\ Len(guests) = 1
    /\ Len(lines) = 1
    /\ NoValue(guests[1].tipoAlloggiato)
    /\ NoValue(guests[1].cittadinanza)

(* C10 as claimed: a single guest with no role and no citizenship has the   *)
(* Italian sentinel in the citizenship and birth-state slots and role "16". *)
C10_SentinelDefault ==
    C10_Case =>
        /\ lines[1].cittadinanza = ITALY_CODE
        /\ lines[1].statoNascita = ITALY_CODE
        /\ lines[1].tipo = <<"1", "6">>

(* C10 amended: a single guest with no role and no citizenship has blank    *)
(* citizenship and birth-state slots (the primary export has no default     *)
(* citizenship) and role "16".                                              *)
C10_BlankCitizenship ==
    C10_Case =>
        /\ lines[1].cittadinanza = Blank(9)
        /\ lines[1].statoNascita = Blank(9)
        /\ lines[1].tipo = <<"1", "6">>

\* such a guest, with a birth state in the record, has been written
C10_Witness_Single ==
    /\ C10_Case
    /\ guests[1].statoNascita = Str(ITALY_CODE)
    /\ lines[1].tipo = <<"1", "6">>

----------------------------------------------------------------------------
(* The rate limiter over many requests: few request shapes, a moving clock  *)

MaxRequests == 12
MaxTicks == 2

\* a body that passes every check, and one whose honeypot field is filled
ValidBody ==
    [honeypot |-> UNDEF, appartamento |-> Str(<<"D", "r", "e", "a", "m", " ", "S", "t", "u", "d", "i", "o">>),
     dataArrivo |-> ValidArrivo, dataPartenza |-> Str(<<"2", "0", "2", "4", "-", "0", "7", "-", "0", "5">>),
     numeroNotti |-> Num(<<"4">>), guests |-> Arr(<<FillerGuest>>)]
HoneypotBody == [ValidBody EXCEPT !.honeypot = Str(<<"b", "o", "t">>)]

Request(method, forwarded, remoteAddress, body) ==
    [method |-> method, forwarded |-> forwarded, remoteAddress |-> remoteAddress,
     body |-> body]

\* x-forwarded-for "203.0.113.7, 10.0.0.1", or neither header nor socket address
RateRequests ==
    {Request("GET", <<"203.0.113.7", "10.0.0.1">>, "", ValidBody),
     Request("POST", <<"203.0.113.7", "10.0.0.1">>, "", ValidBody),
     Request("POST", <<"203.0.113.7", "10.0.0.1">>, "", HoneypotBody),
     Request("POST", <<>>, "", HoneypotBody)}

\* the upstream: the call fails, or answers with a status and a body that is JSON or not
Rejected == [kind |-> "reject", status |-> 0, json |-> FALSE]
Answer(status, json) == [kind |-> "response", status |-> status, json |-> json]

RateInit ==
    /\ rateLimitMap = EmptyMap
    /\ seen = EmptyMap
    /\ now = 0
    /\ env = Str(<<"r", "e", "_", "k", "e", "y">>)
    /\ inv = [p \in Procs |-> Idle]
    /\ nreq = 0
    /\ ticks = 0
    /\ PadIdle
    /\ FmtIdle
    /\ DateIdle
    /\ GiesIdle

RateNext ==
    \/ nreq < MaxRequests /\ \E req \in RateRequests : Receive(1, req)
    \/ FetchSettles(1, Answer(200, TRUE))
    \/ JsonSettles(1)
    \/ ticks < MaxTicks /\ \E d \in {1, RATE_LIMIT_WINDOW} : Tick(d)

SpecRate == RateInit /\ [][RateNext]_vars

----------------------------------------------------------------------------
(* One request of any shape, met by the process in any state of the         *)
(* rate limiter's record for its key                                        *)

HoneypotValues == {UNDEF, Str(<<>>), Str(<<"b", "o", "t">>), Str(<<"0">>)}
AppartamentoValues ==
    {UNDEF, NULL, Num(<<"7">>), Str(<<>>), Str(<<" ", " ">>), Str(<<"D", "r", "e", "a", "m", " ", "S", "t", "u", "d", "i", "o">>)}
ArrivoValues ==
    {UNDEF, ValidArrivo, Str(<<"2", "0", "2", "4", "-", "7", "-", "1">>), Str(<<"0", "1", "/", "0", "7", "/", "2", "0", "2", "4">>), Str(<<"2", "0", "2", "4", "-", "0", "7", "-", "0", "x">>),
     Num(<<"2", "0", "2", "4", "0", "7", "0", "1">>), Obj(ValidArrivo.v)}
PartenzaValues ==
    {UNDEF, Str(<<"2", "0", "2", "4", "-", "0", "7", "-", "0", "5">>), Str(<<"2", "0", "2", "4", "-", "0", "7", "-", "0", "5", " ">>), Obj(<<"2", "0", "2", "4", "-", "0", "7", "-", "0", "5">>)}
GuestsValues ==
    {UNDEF, NULL, Str(<<"x">>), Obj(<<"[", "o", "b", "j", "e", "c", "t", "]">>),
     Arr(<<>>), Arr(<<FillerGuest>>), Arr(<<EmptyGuest, NULL>>),
     Arr([k \in 1..MaxGuests |-> FillerGuest]),
     Arr([k \in 1..(MaxGuests + 1) |-> FillerGuest])}

Bodies ==
    {UNDEF} \cup
    {[honeypot |-> h, appartamento |-> a, dataArrivo |-> d1, dataPartenza |-> d2,
      numeroNotti |-> Num(<<"4">>), guests |-> g] :
        h \in HoneypotValues, a \in AppartamentoValues, d1 \in ArrivoValues,
        d2 \in PartenzaValues, g \in GuestsValues}

Requests ==
    {Request(m, <<"203.0.113.7">>, "", b) : m \in {"GET", "POST"}, b \in Bodies}

UpstreamAnswers ==
    {Rejected} \cup
    {Answer(s, j) : s \in {200, 201, 400, 401, 403, 422, 429, 500}, j \in BOOLEAN}

\* the key's record after c POSTs at time 0, none if c = 0
RecordAfter(c) ==
    IF c = 0 THEN EmptyMap ELSE ("203.0.113.7" :> [count |-> c, firstRequest |-> 0])
SeenAfter(c) ==
    IF c = 0 THEN EmptyMap
    ELSE ("203.0.113.7" :> [start |-> 0, n |-> c, prev |-> 0,
                            adm |-> Min(c, RATE_LIMIT_MAX)])

ReqInit ==
    /\ \E c \in {0, 1, RATE_LIMIT_MAX - 1, RATE_LIMIT_MAX, RATE_LIMIT_MAX + 1} :
          /\ rateLimitMap = RecordAfter(c)
          /\ seen = SeenAfter(c)
          /\ nreq = c
    /\ now = 0
    /\ env \in {UNDEF, Str(<<>>), Str(<<"r", "e", "_", "k", "e", "y">>)}
    /\ inv = [p \in Procs |-> Idle]
    /\ ticks = 0
    /\ PadIdle
    /\ FmtIdle
    /\ DateIdle
    /\ GiesIdle

ReqNext ==
    \/ inv[1].pc = "idle" /\ \E req \in Requests : Receive(1, req)
    \/ \E upstream \in UpstreamAnswers : FetchSettles(1, upstream)
    \/ JsonSettles(1)

SpecRequest == ReqInit /\ [][ReqNext]_vars

----------------------------------------------------------------------------
(* Claims about the handler's admission, validation and dispatch            *)

\* the invocation has returned with this status
Answered(v, status) == v.pc = "done" /\ v.resp.status = status

\* the rate limiter admitted the invocation's request: it is among the first
\* RATE_LIMIT_MAX POSTs of its key's window
Admitted(v) == v.req.method = "POST" /\ v.ord >= 1 /\ v.ord <= RATE_LIMIT_MAX

(* C5: from a key with no record the first 10 POSTs within the window are   *)
(* admitted, the 11th is answered 429 with remaining count 0, and a POST    *)
(* arriving after the window has elapsed since the window's first request   *)
(* is admitted and starts a new window whose count is 1.                    *)
C5_RateWindow ==
    \A p \in Procs :
        LET v == inv[p]
        IN (v.pc # "idle" /\ v.req.method = "POST") =>
              /\ v.ord <= RATE_LIMIT_MAX => ~Answered(v, 429)
              /\ v.ord = RATE_LIMIT_MAX + 1 => Answered(v, 429) /\ v.remaining = 0
              /\ v.ord = 1 => v.rec = [count |-> 1, firstRequest |-> v.at]

\* a key whose previous window ran to the 11th POST is admitted again
C5_Witness_AdmittedAgain ==
    /\ inv[1].req.method = "POST"
    /\ inv[1].ord = 1
    /\ inv[1].prev = RATE_LIMIT_MAX + 1
    /\ inv[1].at > RATE_LIMIT_WINDOW
    /\ ~Answered(inv[1], 429)

HasBody(v) == v.req.body # UNDEF /\ v.req.body # NULL
HoneypotFilled(v) ==
    /\ HasBody(v)
    /\ v.req.body.honeypot.t = "string"
    /\ v.req.body.honeypot.v # <<>>
HoneypotEmpty(v) == HasBody(v) /\ NoValue(v.req.body.honeypot)

(* C6: a POST whose honeypot is filled never leads to an outbound call and  *)
(* never reaches formatting, whatever its other fields and the secret; when *)
(* the rate limiter admits it, it is answered 200 with status "ok".         *)
C6_HoneypotSilent ==
    \A p \in Procs :
        LET v == inv[p]
        IN (v.pc # "idle" /\ v.req.method = "POST" /\ HoneypotFilled(v)) =>
              /\ v.pc = "done"
              /\ v.sends = 0
              /\ ~v.reached
              /\ v.txt = None
              /\ Admitted(v) => Answered(v, 200) /\ v.resp.ok = "ok"

\* a filled honeypot on an otherwise invalid body, no secret configured: 200
C6_Witness_Trapped ==
    /\ HoneypotFilled(inv[1])
    /\ ~Truthy(env)
    /\ inv[1].req.body.appartamento = UNDEF
    /\ Answered(inv[1], 200)

\* YYYY-MM-DD: four digits, two digits, two digits
DateForm(s) ==
    /\ Len(s) = 10
    /\ s[5] = "-" /\ s[8] = "-"
    /\ \A k \in {1, 2, 3, 4, 6, 7, 9, 10} : s[k] \in Digits

\* the trip fields and guest count the claims call invalid, and valid
BadApartment(a) == NoValue(a) \/ a.t # "string" \/ \A k \in 1..Len(a.v) : a.v[k] = " "
BadDate(d) == NoValue(d) \/ ~DateForm(ToStr(d))
BadGuests(g) == g = UNDEF \/ g = NULL \/ g.t # "array" \/ Len(g.v) = 0 \/ Len(g.v) > 5
ClaimInvalid(body) ==
    \/ BadApartment(body.appartamento)
    \/ BadDate(body.dataArrivo)
    \/ BadDate(body.dataPartenza)
    \/ BadGuests(body.guests)
ClaimValid(body) ==
    /\ ~BadApartment(body.appartamento)
    /\ body.dataArrivo.t = "string" /\ DateForm(body.dataArrivo.v)
    /\ body.dataPartenza.t = "string" /\ DateForm(body.dataPartenza.v)
    /\ body.guests.t = "array" /\ Len(body.guests.v) \in 1..5

(* C7: no outbound call is issued for a request answered 405, 429, 400 or   *)
(* 500 for a missing RESEND_API_KEY; a call is issued only after the method *)
(* check, the rate limit, the honeypot, the secret and the validation have  *)
(* passed; the missing-secret 500 is returned before any formatting.        *)
C7_NoCallOnRejection ==
    \A p \in Procs :
        LET v == inv[p]
            noSecret == Answered(v, 500) /\ v.resp.error = "Missing RESEND_API_KEY"
        IN /\ (Answered(v, 405) \/ Answered(v, 429) \/ Answered(v, 400) \/ noSecret) =>
                 v.sends = 0 /\ v.upstream = NoUpstream
           /\ noSecret => ~v.reached /\ v.txt = None
           /\ v.sends > 0 =>
                 /\ Admitted(v)
                 /\ HoneypotEmpty(v)
                 /\ Truthy(env)
                 /\ ClaimValid(v.req.body)
                 /\ v.reached

\* an admitted, well-formed POST answered 500 for the missing secret
C7_Witness_NoSecret ==
    /\ Admitted(inv[1])
    /\ HoneypotEmpty(inv[1])
    /\ ClaimValid(inv[1].req.body)
    /\ Answered(inv[1], 500)
    /\ inv[1].resp.error = "Missing RESEND_API_KEY"

\* the request passed admission and the handler's validation
Passed(v) ==
    /\ v.pc # "idle"
    /\ Admitted(v)
    /\ HoneypotEmpty(v)
    /\ Truthy(env)
    /\ ValidationError(v.req.body) = ""

\* the user message the claim gives an upstream status
ClaimedMessage(status) ==
    IF status = 429 THEN "Troppe richieste. Riprova tra qualche minuto."
    ELSE IF status = 401 \/ status = 403
         THEN "Errore di configurazione. Contatta l'amministratore."
         ELSE "Errore nell'invio dell'email. Riprova piu' tardi."

\* the handler's answer to an upstream response, as the claim has it
MappedAsClaimed(v) ==
    IF v.upstream.status \in 200..299
    THEN Answered(v, 200)
    ELSE /\ Answered(v, 500)
         /\ v.resp.error = "Email sending failed"
         /\ v.resp.message = ClaimedMessage(v.upstream.status)
         /\ ~v.resp.resend

(* C8 as claimed: every request that passes admission and validation issues *)
(* exactly one outbound call, never retried; a success response yields 200, *)
(* a non-success response 500 "Email sending failed" with the message its   *)
(* status selects and no upstream detail.                                   *)
C8_ExactlyOneCall ==
    \A p \in Procs :
        LET v == inv[p]
        IN Passed(v) =>
              /\ v.sends = 1
              /\ (v.pc = "done" /\ v.upstream.kind = "response") => MappedAsClaimed(v)

\* formatting raises: a guest entry is null, or a date is not a string
Faulty(body) ==
    \/ \E k \in 1..Len(body.guests.v) : body.guests.v[k] = NULL
    \/ body.dataArrivo.t # "string"
    \/ body.dataPartenza.t # "string"

IsServerError(v) ==
    /\ Answered(v, 500)
    /\ v.resp.error = "Server error"
    /\ ~v.resp.resend

(* C8 amended: a request that passes admission and validation issues at     *)
(* most one outbound call, never retried: exactly one unless formatting     *)
(* raises (a null guest entry, a date that is not a string), which is       *)
(* answered 500 "Server error" with no call.  A response whose body parses  *)
(* as JSON yields 200 on success and otherwise 500 "Email sending failed"   *)
(* with the message its status selects; a call that fails or a body that    *)
(* does not parse yields 500 "Server error".  No 500 carries upstream       *)
(* detail.                                                                  *)
C8_AtMostOneCall ==
    \A p \in Procs :
        LET v == inv[p]
        IN Passed(v) =>
              /\ v.sends = IF Faulty(v.req.body) THEN 0 ELSE 1
              /\ Faulty(v.req.body) => IsServerError(v)
              /\ (v.pc = "done" /\ v.upstream.kind = "response" /\ v.upstream.json) =>
                    MappedAsClaimed(v)
              /\ (v.pc = "done" /\ v.upstream.kind = "response" /\ ~v.upstream.json) =>
                    IsServerError(v)
              /\ (v.pc = "done" /\ v.upstream.kind = "reject") => IsServerError(v)
              /\ Answered(v, 500) => ~v.resp.resend

\* an upstream 429 has been turned into the 'try later in a few minutes' 500
C8_Witness_Upstream429 ==
    /\ Passed(inv[1])
    /\ inv[1].sends = 1
    /\ inv[1].upstream = Answer(429, TRUE)
    /\ Answered(inv[1], 500)
    /\ inv[1].resp.message = "Troppe richieste. Riprova tra qualche minuto."

----------------------------------------------------------------------------
(* netlify/functions/send-alloggiati-txt.js and its Vercel twin: the older  *)
(* formatter, whose dates are ddmmyy                                        *)

\* an exception thrown by the call (a TypeError)
Throw == [t |-> "throw", v |-> <<>>]

\* y.slice(2)
slice2(s) == SubSeq(s, 3, Len(s))

\* const [y, m, day] = parts: an element past the array's end is undefined
Part(parts, k) == IF k <= Len(parts) THEN Str(parts[k]) ELSE UNDEF

\* const pad = (val, len) => String(val || "").padEnd(len, " ")
padOld(val, len) == padEnd(ToStr(OrElse(val, Str(<<>>))), len, " ")

\* const padLeft = (val, len) => String(val || "").padStart(len, "0")
padLeft(val, len) == padStart(ToStr(OrElse(val, Str(<<>>))), len, "0")

\* dateFormat writing the month before the day
dateFormatMonthFirst(d) ==
    IF ~Truthy(d) THEN Str(Fill("0", 6))
    ELSE IF d.t # "string" THEN Throw
    ELSE LET parts == split(d.v, "-")
         IN Str(ToStr(Part(parts, 2)) \o ToStr(Part(parts, 3)) \o slice2(parts[1]))

\* dateFormat(d): `${day}${m}${y.slice(2)}`; d.split of a value that is not a
\* string is not a function
dateFormat(d) ==
    IF ~Truthy(d) THEN Str(Fill("0", 6))
    ELSE IF d.t # "string" THEN Throw
    ELSE LET parts == split(d.v, "-")
         IN Str(ToStr(Part(parts, 3)) \o ToStr(Part(parts, 2)) \o slice2(parts[1]))

----------------------------------------------------------------------------
(* The two date reformatters on their own: DateInit draws two arguments     *)

LegalDates ==
    {y \o <<"-">> \o m \o <<"-">> \o d :
        y \in {<<"1", "9", "2", "5">>, <<"2", "0", "2", "5">>, <<"2", "0", "2", "4">>},
        m \in {<<"0", "1">>, <<"1", "2">>},
        d \in {<<"0", "1">>, <<"1", "2">>, <<"3", "1">>}}

MalformedDates ==
    {<<>>, <<"1", "9", "9", "0">>, <<"1", "9", "9", "0", "-", "0", "5">>, <<"1", "-", "2", "-", "3", "-", "4">>,
     <<"2", "0", "/", "0", "5", "/", "1", "9", "9", "0">>, <<"-">>, <<"1", "9", "9", "0", "0", "5", "2", "0">>}

DateValues ==
    {UNDEF, NULL, Num(<<"1", "9", "9", "0", "0", "5", "2", "0">>), Obj(<<"1", "9", "9", "0", "-", "0", "5", "-", "2", "0">>)}
        \cup {Str(s) : s \in LegalDates \cup MalformedDates}

DateInit ==
    /\ dateIn \in {<<a, b>> : a \in DateValues, b \in DateValues}
    /\ fmtDate = <<None, None>>
    /\ oldDate = <<None, None>>
    /\ oldSlot = <<None, None>>
    /\ GiesIdle
    /\ PadIdle
    /\ FmtIdle
    /\ ReqIdle

\* formatDate(clean(g.dataNascita)), the date slot of the current handler
CallFormatDate(k) ==
    /\ fmtDate[k] = None
    /\ fmtDate' = [fmtDate EXCEPT ![k] = Str(formatDate(clean(dateIn[k])))]
    /\ UNCHANGED <<dateIn, oldDate, oldSlot>>
    /\ UNCHANGED <<giesVars, padVars, fmtVars, reqVars>>

\* pad(dateFormat(g.dataNascita), 6), the date slot of the older formatter
CallDateFormat(k) ==
    /\ oldDate[k] = None
    /\ oldDate' = [oldDate EXCEPT ![k] = dateFormat(dateIn[k])]
    /\ oldSlot' = [oldSlot EXCEPT ![k] =
                      IF dateFormat(dateIn[k]) = Throw THEN Throw
                      ELSE Str(padOld(dateFormat(dateIn[k]), 6))]
    /\ UNCHANGED <<dateIn, fmtDate>>
    /\ UNCHANGED <<giesVars, padVars, fmtVars, reqVars>>

DateNext == \E k \in 1..2 : CallFormatDate(k) \/ CallDateFormat(k)

SpecDate == DateInit /\ [][DateNext]_vars

\* a legal date string, and its year, month and day
LegalDate(val) == val.t = "string" /\ DateForm(val.v)
YearOf(val) == SubSeq(val.v, 1, 4)
MonthOf(val) == SubSeq(val.v, 6, 7)
DayOf(val) == SubSeq(val.v, 9, 10)
\* the last two digits of the year
ShortYearOf(val) == SubSeq(val.v, 3, 4)

\* formatDate keeps day, month and four-digit year, as dd/mm/yyyy
KeepsFullDate(k) ==
    (LegalDate(dateIn[k]) /\ fmtDate[k] # None) =>
        fmtDate[k] = Str(DayOf(dateIn[k]) \o <<"/">> \o MonthOf(dateIn[k])
                            \o <<"/">> \o YearOf(dateIn[k]))

BothLegal == LegalDate(dateIn[1]) /\ LegalDate(dateIn[2])

(* C11 as claimed: for legal dates formatDate yields dd/mm/yyyy with the    *)
(* input's day, month and year, dateFormat yields 6 characters, and two     *)
(* inputs that differ in year, month or day never produce the same output   *)
(* of either reformatter.                                                   *)
C11_RoundTrip ==
    /\ \A k \in 1..2 :
          /\ KeepsFullDate(k)
          /\ (LegalDate(dateIn[k]) /\ oldDate[k] # None) =>
                oldDate[k].t = "string" /\ Len(oldDate[k].v) = 6
    /\ (BothLegal /\ dateIn[1] # dateIn[2]) =>
          /\ (fmtDate[1] # None /\ fmtDate[2] # None) => fmtDate[1] # fmtDate[2]
          /\ (oldDate[1] # None /\ oldDate[2] # None) => oldDate[1] # oldDate[2]

(* C11 amended: for legal dates formatDate yields dd/mm/yyyy with the       *)
(* input's day, month and four-digit year, so different dates give          *)
(* different outputs; dateFormat yields the 6 characters ddmmyy: the        *)
(* input's day, its month and the last two digits of its year, so two       *)
(* dates give the same output exactly when they agree in day, month and     *)
(* the year's last two digits (the century is not kept).                    *)
C11_RoundTripShortYear ==
    /\ \A k \in 1..2 :
          /\ KeepsFullDate(k)
          /\ (LegalDate(dateIn[k]) /\ oldDate[k] # None) =>
                oldDate[k] = Str(DayOf(dateIn[k]) \o MonthOf(dateIn[k])
                                    \o ShortYearOf(dateIn[k]))
    /\ (BothLegal /\ dateIn[1] # dateIn[2]) =>
          /\ (fmtDate[1] # None /\ fmtDate[2] # None) => fmtDate[1] # fmtDate[2]
          /\ (oldDate[1] # None /\ oldDate[2] # None) =>
                (oldDate[1] = oldDate[2]
                    <=> /\ DayOf(dateIn[1]) = DayOf(dateIn[2])
                        /\ MonthOf(dateIn[1]) = MonthOf(dateIn[2])
                        /\ ShortYearOf(dateIn[1]) = ShortYearOf(dateIn[2]))

\* two dates a century apart have gone through both reformatters
C11_Witness_CenturyApart ==
    /\ dateIn[1] = Str(<<"1", "9", "2", "5">> \o <<"-", "1", "2", "-", "0", "1">>)
    /\ dateIn[2] = Str(<<"2", "0", "2", "5">> \o <<"-", "1", "2", "-", "0", "1">>)
    /\ fmtDate[1] = Str(<<"0", "1", "/", "1", "2", "/">> \o <<"1", "9", "2", "5">>)
    /\ fmtDate[2] = Str(<<"0", "1", "/", "1", "2", "/">> \o <<"2", "0", "2", "5">>)
    /\ oldDate[1] = oldDate[2]
    /\ oldDate[1] # None

\* the number of '-' in a string: its segments are one more
Hyphens(s) == Cardinality({k \in 1..Len(s) : s[k] = "-"})

\* a date that is missing, empty, or a string of other than 3 segments
WrongSegments(val) ==
    \/ val = UNDEF
    \/ val = NULL
    \/ val.t = "string" /\ Hyphens(val.v) # 2

\* a slot of width w that is all spaces or all zeros
BlankOrZero(slot, w) ==
    /\ slot.t = "string"
    /\ Len(slot.v) = w
    /\ \/ \A k \in 1..w : slot.v[k] = " "
       \/ \A k \in 1..w : slot.v[k] = "0"

(* C12: for a date that is missing, empty or has a number of '-'-separated  *)
(* segments other than 3, the date slot is blank or zero-filled at exactly  *)
(* the slot's width, 10 characters from formatDate and 6 characters from    *)
(* dateFormat, and no error is raised.                                      *)
C12_MalformedDegrade ==
    \A k \in 1..2 :
        WrongSegments(dateIn[k]) =>
            /\ fmtDate[k] # None => BlankOrZero(fmtDate[k], 10)
            /\ oldSlot[k] # None => BlankOrZero(oldSlot[k], 6)

----------------------------------------------------------------------------
(* The older formatter's loop: OldInit draws a body that has passed its     *)
(* check of emailOspite and guests                                          *)

\* (val || "").toUpperCase(): not a function of a value that is not a string
UpperOf(val) ==
    IF OrElse(val, Str(<<>>)).t = "string"
    THEN Str(toUpperCase(OrElse(val, Str(<<>>)).v))
    ELSE Throw

\* the 14 fields of a line of the older formatter, in their order, and the
\* widths its comments give them
SlotNamesOld == <<"tipo", "dataArrivo", "giorni", "cognome", "nome", "sesso",
                  "dataNascita", "statoNascita", "cittadinanza", "comuneNascita",
                  "provinciaNascita", "tipoDoc", "numDoc", "luogoRil">>

\* one iteration of for (let g of guests): the line's fields, or the
\* exception that ends the loop
LineSlotsOld(g, arrivo, notti) ==
    IF g = NULL \/ g = UNDEF
          \/ dateFormat(arrivo) = Throw
          \/ dateFormat(Field(g, "dataNascita")) = Throw
          \/ UpperOf(Field(g, "cognome")) = Throw
          \/ UpperOf(Field(g, "nome")) = Throw
          \/ UpperOf(Field(g, "numeroDocumento")) = Throw
    THEN Throw
    ELSE [tipo |-> padOld(OrElse(Field(g, "tipoAlloggiato"), Str(<<>>)), 2),
          dataArrivo |-> padOld(dateFormat(arrivo), 6),
          giorni |-> padLeft(OrElse(OrElse(Field(g, "giorni"), notti), Str(<<>>)), 2),
          cognome |-> padOld(UpperOf(Field(g, "cognome")), 50),
          nome |-> padOld(UpperOf(Field(g, "nome")), 30),
          sesso |-> padOld(OrElse(Field(g, "sesso"), Str(<<>>)), 1),
          dataNascita |-> padOld(dateFormat(Field(g, "dataNascita")), 6),
          statoNascita |-> padOld(OrElse(Field(g, "statoNascita"), Str(<<>>)), 9),
          cittadinanza |-> padOld(OrElse(Field(g, "cittadinanza"), Str(<<>>)), 9),
          comuneNascita |-> padOld(OrElse(Field(g, "comuneNascita"), Str(<<>>)), 9),
          provinciaNascita |->
              padOld(OrElse(Field(g, "provinciaNascita"), Str(<<>>)), 2),
          tipoDoc |-> padOld(OrElse(Field(g, "tipoDocumento"), Str(<<>>)), 5),
          numDoc |-> padOld(UpperOf(Field(g, "numeroDocumento")), 20),
          luogoRil |-> padOld(OrElse(Field(g, "luogoRilascio"), Str(<<>>)), 9)]

\* the line as the older formatter concatenates it
RECURSIVE ConcatSlotsOld(_, _)
ConcatSlotsOld(slots, k) ==
    IF k > Len(SlotNamesOld) THEN <<>>
    ELSE slots[SlotNamesOld[k]] \o ConcatSlotsOld(slots, k + 1)

LineTextOld(slots) == ConcatSlotsOld(slots, 1)

\* guests whose date of birth or surname is a number
NumberGuests ==
    {[EmptyGuest EXCEPT !.dataNascita = Num(<<"1", "9", "9", "0", "0", "5", "2", "0">>)],
     [EmptyGuest EXCEPT !.cognome = Num(<<"7">>)]}

OldSubmissions ==
    {[k \in 1..n |-> IF k = f THEN g ELSE FillerGuest] :
        n \in 1..2, f \in 1..2, g \in GuestPool \cup NumberGuests}

OldInit ==
    /\ guests \in OldSubmissions
    /\ dataArrivo \in {ValidArrivo, UNDEF}
    /\ numeroNotti \in {UNDEF, Num(<<"2">>)}
    /\ i = 0
    /\ lines = <<>>
    /\ finalTxt = None
    /\ PadIdle
    /\ ReqIdle
    /\ DateIdle
    /\ GiesIdle

\* for (let g of guests) { ... lines.push(line); }: one iteration, the
\* exception of a line leaving the loop for the catch block
OldLoopBody ==
    /\ finalTxt = None
    /\ i < Len(guests)
    /\ IF LineSlotsOld(guests[i + 1], dataArrivo, numeroNotti) = Throw
       THEN /\ finalTxt' = Throw
            /\ UNCHANGED lines
       ELSE /\ lines' = Append(lines, LineSlotsOld(guests[i + 1], dataArrivo, numeroNotti))
            /\ UNCHANGED finalTxt
    /\ i' = i + 1
    /\ UNCHANGED <<guests, dataArrivo, numeroNotti>>
    /\ UNCHANGED <<padVars, reqVars, extVars>>

\* const finalTxt = lines.join("\r\n")
OldJoinLines ==
    /\ finalTxt = None
    /\ i = Len(guests)
    /\ finalTxt' = Str(joinCRLF([k \in 1..Len(lines) |-> LineTextOld(lines[k])]))
    /\ UNCHANGED <<guests, dataArrivo, numeroNotti, i, lines>>
    /\ UNCHANGED <<padVars, reqVars, extVars>>

OldNext == OldLoopBody \/ OldJoinLines

SpecOld == OldInit /\ [][OldNext]_vars

\* the widths of the older formatter's fields, in their order
WidthsOld == <<2, 6, 2, 50, 30, 1, 6, 9, 9, 9, 2, 5, 20, 9>>

(* C13: in the ddmmyy formatter every field written into a line has exactly *)
(* its width (2, 6, 2, 50, 30, 1, 6, 9, 9, 9, 2, 5, 20, 9), the stay-length *)
(* field exactly 2, so every line has 160 characters for every guest.       *)
C13_OldLineWidth ==
    \A k \in 1..Len(lines) :
        /\ \A f \in 1..Len(SlotNamesOld) :
              Len(lines[k][SlotNamesOld[f]]) = WidthsOld[f]
        /\ Len(lines[k].giorni) = 2
        /\ Len(LineTextOld(lines[k])) = 160

----------------------------------------------------------------------------
(* api/send-alloggiati-txt.js: the secondary (GIES) export, as              *)
(* pipe-delimited records and as XML elements                               *)

LowerChar(c) ==
    IF \E k \in 1..Len(UpperCase) : UpperCase[k] = c
    THEN LowerCase[CHOOSE k \in 1..Len(UpperCase) : UpperCase[k] = c]
    ELSE c

\* s.toLowerCase()
toLowerCase(s) == [k \in 1..Len(s) |-> LowerChar(s[k])]

WhiteSpace == {" ", "\t", "\n", "\r"}

\* s.trim()
RECURSIVE trim(_)
trim(s) ==
    IF s = <<>> THEN s
    ELSE IF s[1] \in WhiteSpace THEN trim(Tail(s))
    ELSE IF s[Len(s)] \in WhiteSpace THEN trim(SubSeq(s, 1, Len(s) - 1))
    ELSE s

\* s.includes(part)
includes(s, part) ==
    \E k \in 0..(Len(s) - Len(part)) : SubSeq(s, k + 1, k + Len(part)) = part

\* s.replace(/c/g, by)
RECURSIVE replaceAll(_, _, _)
replaceAll(s, c, by) ==
    IF s = <<>> THEN <<>>
    ELSE (IF s[1] = c THEN by ELSE <<s[1]>>) \o replaceAll(Tail(s), c, by)

\* formatDateGIES(d) for a string d: AAAAMMGG
formatDateGIES(d) ==
    IF d = <<>> THEN <<>>
    ELSE LET parts == split(d, "-")
         IN IF Len(parts) # 3 THEN replaceAll(d, "-", <<>>)
            ELSE parts[1] \o parts[2] \o parts[3]

\* getCodiceStrutturaRoss(apt)
getCodiceStrutturaRoss(apt) ==
    CASE apt = Str(<<"S", "t", "a", "t", "i", "o", "n", " ", "A", "p", "a", "r", "t", "m", "e", "n", "t">>) -> <<"Z", "0", "7", "8", "8", "6">>
      [] apt = Str(<<"S", "k", "y", "l", "i", "n", "e", " ", "A", "p", "a", "r", "t", "m", "e", "n", "t">>) -> <<"Z", "0", "7", "8", "8", "7">>
      [] apt = Str(<<"D", "r", "e", "a", "m", " ", "S", "t", "u", "d", "i", "o">>) -> <<"M", "0", "2", "7", "0", "4", "2", "5", "4", "2", "2">>
      [] apt = Str(<<"S", "w", "e", "e", "t", " ", "D", "r", "e", "a", "m", " ", "A", "p", "a", "r", "t", "m", "e", "n", "t">>) -> <<"Z", "0", "4", "2", "6", "3">>
      [] OTHER -> <<"Z", "0", "7", "8", "8", "6">>

\* mapTipoGIES(tipo) for a string tipo
mapTipoGIES(tipo) ==
    CASE tipo = <<"1", "6">> -> <<"1", "8">>
      [] tipo = <<"1", "7">> -> <<"1", "6">>
      [] tipo = <<"1", "8">> -> <<"1", "7">>
      [] tipo = <<"1", "9">> -> <<"1", "9">>
      [] tipo = <<"2", "0">> -> <<"2", "0">>
      [] OTHER -> <<"1", "8">>

\* mapSessoGIES(s) for a string s
mapSessoGIES(s) ==
    CASE s = <<"1">> -> <<"M">>
      [] s = <<"2">> -> <<"F">>
      [] OTHER -> <<>>

\* escapeXml(str)
escapeXml(str) ==
    IF ~Truthy(str) THEN <<>>
    ELSE replaceAll(
           replaceAll(
             replaceAll(
               replaceAll(
                 replaceAll(ToStr(str), "&", <<"&", "a", "m", "p", ";">>),
                 "<", <<"&", "l", "t", ";">>),
               ">", <<"&", "g", "t", ";">>),
             "\"", <<"&", "q", "u", "o", "t", ";">>),
           "'", <<"&", "a", "p", "o", "s", ";">>)

\* statiIstat.find(s => s.nome.toLowerCase().includes(statoInput)): the codice
\* of the first entry found, "" when none is
findStato(table, statoInput) ==
    IF \E k \in 1..Len(table) : includes(toLowerCase(table[k].nome), statoInput)
    THEN table[CHOOSE k \in 1..Len(table) :
                  /\ includes(toLowerCase(table[k].nome), statoInput)
                  /\ \A j \in 1..(k - 1) :
                        ~includes(toLowerCase(table[j].nome), statoInput)].codice
    ELSE <<>>

\* (clean(g.statoNascitaNome || g.statoNascita || "") || "").toLowerCase().trim()
statoInputOf(g) ==
    trim(toLowerCase(clean(OrElse(OrElse(Field(g, "statoNascitaNome"),
                                         Field(g, "statoNascita")), Str(<<>>)))))

\* statoNascita of the ARR loop (lines 328-345): the table is searched only
\* for a name that is not empty; a table that cannot be read gives ""
statoNascitaArr(g, table) ==
    IF clean(Field(g, "cittadinanza")) # <<>> THEN clean(Field(g, "cittadinanza"))
    ELSE IF clean(Field(g, "statoNascita")) # <<>> THEN clean(Field(g, "statoNascita"))
    ELSE IF table = Throw THEN <<>>
    ELSE IF statoInputOf(g) # <<>> THEN findStato(table.v, statoInputOf(g))
    ELSE <<>>

\* statoNascita of the XML loop (lines 416-431): the table is searched for
\* the name, empty or not
statoNascitaXml(g, table) ==
    IF clean(Field(g, "cittadinanza")) # <<>> THEN clean(Field(g, "cittadinanza"))
    ELSE IF clean(Field(g, "statoNascita")) # <<>> THEN clean(Field(g, "statoNascita"))
    ELSE IF table = Throw THEN <<>>
    ELSE findStato(table.v, statoInputOf(g))

\* comuneResidenza: the citizenship code for a foreign guest who gives none
comuneResidenzaOf(g) ==
    IF clean(Field(g, "comuneResidenza")) = <<>>
          /\ clean(Field(g, "cittadinanza")) # <<>>
          /\ clean(Field(g, "cittadinanza")) # ITALY_CODE
    THEN clean(Field(g, "cittadinanza"))
    ELSE clean(Field(g, "comuneResidenza"))

\* idCapo: empty for the first guest, the first guest's id for the others
idCapoOf(index, firstGuestId) == IF index = 0 THEN <<>> ELSE <<firstGuestId>>

\* the role of the ARR loop (lines 310-317), written out there in full
tipoAlloggiatoArr(g, index, totalGuests) ==
    LET tipo == clean(Field(g, "tipoAlloggiato"))
    IN IF tipo = <<>>
       THEN IF index = 0 /\ totalGuests > 1 THEN <<"1", "7">>
            ELSE IF index = 0 THEN <<"1", "6">> ELSE <<"1", "9">>
       ELSE IF index = 0 /\ totalGuests > 1 /\ tipo = <<"1", "6">>
            THEN <<"1", "7">>
            ELSE tipo

\* the ARR record of guest g at index: the fields between the pipes
ArrRecord(g, index, totalGuests, base, table) ==
    [rec |-> "ARR",
     guestId |-> base + index,
     tipoGIES |-> mapTipoGIES(tipoAlloggiatoArr(g, index, totalGuests)),
     idCapo |-> idCapoOf(index, base),
     sesso |-> mapSessoGIES(clean(Field(g, "sesso"))),
     cittadinanza |-> clean(Field(g, "cittadinanza")),
     statoResidenza |-> clean(Field(g, "cittadinanza")),
     comuneResidenza |-> comuneResidenzaOf(g),
     dataNascita |-> formatDateGIES(clean(Field(g, "dataNascita"))),
     statoNascita |-> statoNascitaArr(g, table),
     comuneNascita |-> clean(Field(g, "comuneNascita"))]

\* the PAR record of guest g at index
ParRecord(g, index, totalGuests, base, arrivo) ==
    [rec |-> "PAR",
     guestId |-> base + index,
     tipoGIES |-> mapTipoGIES(determineTipoAlloggiato(g, index, totalGuests)),
     dataArrivo |-> formatDateGIES(ToStr(arrivo))]

\* guests[0]?.cittadinanza || "100000100" and guests[0]?.comuneResidenza || ""
statoProvFirst(g) == ToStr(OrElse(Field(g, "cittadinanza"), Str(ITALY_CODE)))
comuneProvFirst(g) == ToStr(OrElse(Field(g, "comuneResidenza"), Str(<<>>)))

\* the PRE record
PreRecord(gs, base, arrivo, partenza) ==
    [rec |-> "PRE",
     prenotazioneId |-> base,
     arrivo |-> formatDateGIES(ToStr(arrivo)),
     partenza |-> formatDateGIES(ToStr(partenza)),
     ospiti |-> Len(gs),
     statoProv |-> statoProvFirst(gs[1]),
     comuneProv |-> comuneProvFirst(gs[1])]

\* the <arrivo> element of guest g at index: the content of its elements
XmlArrivo(g, index, totalGuests, base, table) ==
    [idswh |-> base + index,
     tipoalloggiato |-> mapTipoGIES(determineTipoAlloggiato(g, index, totalGuests)),
     idcapo |-> idCapoOf(index, base),
     cognome |-> escapeXml(Str(clean(Field(g, "cognome")))),
     nome |-> escapeXml(Str(clean(Field(g, "nome")))),
     sesso |-> mapSessoGIES(clean(Field(g, "sesso"))),
     cittadinanza |-> clean(Field(g, "cittadinanza")),
     statoresidenza |-> clean(Field(g, "cittadinanza")),
     luogoresidenza |-> comuneResidenzaOf(g),
     datanascita |-> formatDateGIES(clean(Field(g, "dataNascita"))),
     statonascita |-> statoNascitaXml(g, table),
     comunenascita |-> clean(Field(g, "comuneNascita"))]

\* the <partenza> element of guest g at index
XmlPartenza(g, index, totalGuests, base, arrivo) ==
    [idswh |-> base + index,
     tipoalloggiato |-> mapTipoGIES(determineTipoAlloggiato(g, index, totalGuests)),
     arrivo |-> formatDateGIES(ToStr(arrivo))]

\* xmlRoss: the elements around the arrivi and partenze
XmlDocument(apt, gs, base, arrivo, partenza) ==
    [t |-> "xml",
     codice |-> escapeXml(Str(getCodiceStrutturaRoss(apt))),
     data |-> formatDateGIES(ToStr(arrivo)),
     lettidisponibili |-> Len(gs),
     prenotazione |->
         [idswh |-> base,
          arrivo |-> formatDateGIES(ToStr(arrivo)),
          partenza |-> formatDateGIES(ToStr(partenza)),
          ospiti |-> Len(gs),
          statoprovenienza |-> statoProvFirst(gs[1]),
          comuneprovenienza |-> comuneProvFirst(gs[1])]]

----------------------------------------------------------------------------
(* The secondary export on its own: GiesInit draws a body that has passed   *)
(* validation and the content of data/stati_istat.json                      *)

\* the ids Date.now().toString().slice(-7) may give
BaseIds == {0, 4821337}

\* the table: unreadable, empty, or a list of states
Tables ==
    {Throw, Arr(<<>>),
     Arr(<<[nome |-> <<"I", "t", "a", "l", "i", "a">>, codice |-> ITALY_CODE],
           [nome |-> <<"F", "r", "a", "n", "c", "i", "a">>, codice |-> <<"1", "0", "0", "0", "0", "0", "2", "1", "5">>]>>),
     Arr(<<[nome |-> <<"F", "r", "a", "n", "c", "i", "a">>, codice |-> <<"1", "0", "0", "0", "0", "0", "2", "1", "5">>],
           [nome |-> <<"I", "t", "a", "l", "i", "a">>, codice |-> ITALY_CODE]>>)}

GiesCitizenValues ==
    {UNDEF, Str(<<>>), Str(ITALY_CODE), Str(<<"1", "0", "0", "0", "0", "0", "2", "1", "5">>), Str(<<"<", "b", ">">>)}

\* guests that differ in citizenship, birth state and the birth state's name
StateGuests ==
    {[EmptyGuest EXCEPT !.cittadinanza = c, !.statoNascita = s,
                        !.statoNascitaNome = n] :
        c \in GiesCitizenValues,
        s \in {UNDEF, Str(<<"1", "0", "0", "0", "0", "0", "2", "1", "5">>), Str(ToStr(UNDEF))},
        n \in {UNDEF, Str(<<"F", "r", "a">>), Str(<<" ", "I", "T", "A", "L", "I", "A", " ">>)}}

\* guests that differ in citizenship and the municipalities
ResidenceGuests ==
    {[EmptyGuest EXCEPT !.cittadinanza = c, !.comuneResidenza = r,
                        !.comuneNascita = m] :
        c \in GiesCitizenValues,
        r \in {UNDEF, Str(<<"4", "0", "5", "0", "2", "7", "0", "4", "2">>), Str(<<"a", "\"", "b">>)},
        m \in {UNDEF, Str(<<"4", "0", "5", "0", "2", "7", "0", "4", "2">>)}}

\* guests with neither citizenship nor birth state that differ in the rest
PersonGuests ==
    {[EmptyGuest EXCEPT !.sesso = x, !.tipoAlloggiato = r, !.dataNascita = b,
                        !.cognome = c, !.nome = c] :
        x \in {UNDEF, Str(<<"1">>), Str(<<"2">>), Str(<<"M">>)},
        r \in {UNDEF, Str(<<"1", "6">>), Str(<<"1", "8">>), Str(<<"9", "9">>)},
        b \in {UNDEF, Str(<<"1", "9", "9", "0", "-", "0", "5", "-", "2", "0">>), Str(<<"1", "9", "9", "0">>)},
        c \in {UNDEF, Str(<<"O", "'", "N", "e", "i", "l", " ", "&", " ", "<", "C", "o", ">">>)}}

GiesGuestPool == StateGuests \cup ResidenceGuests \cup PersonGuests

GiesSubmissions ==
    {[k \in 1..n |-> IF k = f THEN g ELSE FillerGuest] :
        n \in 1..2, f \in 1..2, g \in GiesGuestPool}

ValidPartenza == Str(<<"2", "0", "2", "4", "-", "0", "7", "-", "0", "5">>)

GiesInit ==
    /\ guests \in GiesSubmissions
    /\ dataArrivo = ValidArrivo
    /\ dataPartenza = ValidPartenza
    /\ appartamento \in {Str(<<"D", "r", "e", "a", "m", " ", "S", "t", "u", "d", "i", "o">>), Str(<<"x">>)}
    /\ numeroNotti = Num(<<"4">>)
    /\ statiIstat \in Tables
    /\ baseId = 0
    /\ phase = "header"
    /\ i = 0
    /\ lines = <<>>
    /\ finalTxt = None
    /\ giesLines = <<>>
    /\ xmlArrivi = <<>>
    /\ xmlPartenze = <<>>
    /\ xmlRoss = None
    /\ PadIdle
    /\ ReqIdle
    /\ DateIdle

\* lines 279-298: baseId, then the HDR and MOV records
GiesHeader(base) ==
    /\ phase = "header"
    /\ baseId' = base
    /\ giesLines' = <<[rec |-> "HDR",
                       codiceStruttura |-> getCodiceStrutturaRoss(appartamento)],
                      [rec |-> "MOV", data |-> formatDateGIES(ToStr(dataArrivo)),
                       camereOccupate |-> 1, letti |-> Len(guests)]>>
    /\ phase' = "arr"
    /\ UNCHANGED <<statiIstat, appartamento, dataPartenza, xmlArrivi, xmlPartenze, xmlRoss>>
    /\ UNCHANGED <<padVars, fmtVars, reqVars, dateVars>>

\* lines 302-360: one iteration of the ARR loop
ArrLoop ==
    /\ phase = "arr"
    /\ giesLines' = Append(giesLines,
                           ArrRecord(guests[i + 1], i, Len(guests), baseId, statiIstat))
    /\ i' = IF i + 1 = Len(guests) THEN 0 ELSE i + 1
    /\ phase' = IF i + 1 = Len(guests) THEN "par" ELSE "arr"
    /\ UNCHANGED <<statiIstat, baseId, appartamento, dataPartenza,
                   xmlArrivi, xmlPartenze, xmlRoss>>
    /\ UNCHANGED <<guests, dataArrivo, numeroNotti, lines, finalTxt>>
    /\ UNCHANGED <<padVars, reqVars, dateVars>>

\* lines 363-373: one iteration of the PAR loop
ParLoop ==
    /\ phase = "par"
    /\ giesLines' = Append(giesLines,
                           ParRecord(guests[i + 1], i, Len(guests), baseId, dataArrivo))
    /\ i' = IF i + 1 = Len(guests) THEN 0 ELSE i + 1
    /\ phase' = IF i + 1 = Len(guests) THEN "pre" ELSE "par"
    /\ UNCHANGED <<statiIstat, baseId, appartamento, dataPartenza,
                   xmlArrivi, xmlPartenze, xmlRoss>>
    /\ UNCHANGED <<guests, dataArrivo, numeroNotti, lines, finalTxt>>
    /\ UNCHANGED <<padVars, reqVars, dateVars>>

\* lines 377-383: the PRE and END records
PreEnd ==
    /\ phase = "pre"
    /\ giesLines' = giesLines \o <<PreRecord(guests, baseId, dataArrivo, dataPartenza),
                                   [rec |-> "END"]>>
    /\ phase' = "xml"
    /\ UNCHANGED <<statiIstat, baseId, appartamento, dataPartenza,
                   xmlArrivi, xmlPartenze, xmlRoss>>
    /\ UNCHANGED <<padVars, fmtVars, reqVars, dateVars>>

\* lines 403-471: one iteration of the XML loop
XmlLoop ==
    /\ phase = "xml"
    /\ xmlArrivi' = Append(xmlArrivi,
                           XmlArrivo(guests[i + 1], i, Len(guests), baseId, statiIstat))
    /\ xmlPartenze' = Append(xmlPartenze,
                             XmlPartenza(guests[i + 1], i, Len(guests), baseId, dataArrivo))
    /\ i' = IF i + 1 = Len(guests) THEN 0 ELSE i + 1
    /\ phase' = IF i + 1 = Len(guests) THEN "doc" ELSE "xml"
    /\ UNCHANGED <<statiIstat, baseId, appartamento, dataPartenza, giesLines, xmlRoss>>
    /\ UNCHANGED <<guests, dataArrivo, numeroNotti, lines, finalTxt>>
    /\ UNCHANGED <<padVars, reqVars, dateVars>>

\* lines 473-503: the document around the elements
XmlRoss ==
    /\ phase = "doc"
    /\ xmlRoss' = XmlDocument(appartamento, guests, baseId, dataArrivo, dataPartenza)
    /\ phase' = "done"
    /\ UNCHANGED <<statiIstat, baseId, appartamento, dataPartenza,
                   giesLines, xmlArrivi, xmlPartenze>>
    /\ UNCHANGED <<padVars, fmtVars, reqVars, dateVars>>

GiesNext ==
    \/ \E base \in BaseIds : GiesHeader(base)
    \/ ArrLoop
    \/ ParLoop
    \/ PreEnd
    \/ XmlLoop
    \/ XmlRoss

SpecGies == GiesInit /\ [][GiesNext]_vars

\* the ARR and PAR records of guest k (after the HDR and MOV records)
ArrOf(k) == giesLines[2 + k]
ParOf(k) == giesLines[2 + Len(guests) + k]

(* C14: for every guest the ARR record and the <arrivo> element carry the   *)
(* same guest id, role type, head id, sex, citizenship, residence state,    *)
(* residence municipality, birth date, birth state and birth municipality,  *)
(* and the PAR record and the <partenza> element the same id, role type and *)
(* arrival date, whatever the birth-state table holds.                      *)
C14_RenderingsEquivalent ==
    \A k \in 1..Len(xmlArrivi) :
        /\ ArrOf(k).rec = "ARR"
        /\ ArrOf(k).guestId = xmlArrivi[k].idswh
        /\ ArrOf(k).tipoGIES = xmlArrivi[k].tipoalloggiato
        /\ ArrOf(k).idCapo = xmlArrivi[k].idcapo
        /\ ArrOf(k).sesso = xmlArrivi[k].sesso
        /\ ArrOf(k).cittadinanza = xmlArrivi[k].cittadinanza
        /\ ArrOf(k).statoResidenza = xmlArrivi[k].statoresidenza
        /\ ArrOf(k).comuneResidenza = xmlArrivi[k].luogoresidenza
        /\ ArrOf(k).dataNascita = xmlArrivi[k].datanascita
        /\ ArrOf(k).statoNascita = xmlArrivi[k].statonascita
        /\ ArrOf(k).comuneNascita = xmlArrivi[k].comunenascita
        /\ ParOf(k).rec = "PAR"
        /\ ParOf(k).guestId = xmlPartenze[k].idswh
        /\ ParOf(k).tipoGIES = xmlPartenze[k].tipoalloggiato
        /\ ParOf(k).dataArrivo = xmlPartenze[k].arrivo

\* a text with no raw <, >, " or '
NoRawMarkup(s) == \A k \in 1..Len(s) : s[k] \notin {"<", ">", "\"", "'"}

\* the entity of a character, the character itself when it has none
Entity(c) ==
    CASE c = "&" -> <<"&", "a", "m", "p", ";">>
      [] c = "<" -> <<"&", "l", "t", ";">>
      [] c = ">" -> <<"&", "g", "t", ";">>
      [] c = "\"" -> <<"&", "q", "u", "o", "t", ";">>
      [] c = "'" -> <<"&", "a", "p", "o", "s", ";">>
      [] OTHER -> <<c>>

RECURSIVE Escaped(_)
Escaped(s) == IF s = <<>> THEN <<>> ELSE Entity(s[1]) \o Escaped(Tail(s))

(* C15: the surname and name are written into the XML with & < > " '        *)
(* replaced by their entities, and no content of the elements that carry a  *)
(* value of the request (surname, name, citizenship, residence state and    *)
(* municipality, birth date, birth state, birth municipality, provenance    *)
(* state and municipality) holds a raw <, >, " or '.                        *)
C15_XmlEscaped ==
    /\ \A k \in 1..Len(xmlArrivi) :
          /\ xmlArrivi[k].cognome = Escaped(Text(guests[k].cognome))
          /\ xmlArrivi[k].nome = Escaped(Text(guests[k].nome))
          /\ NoRawMarkup(xmlArrivi[k].cognome)
          /\ NoRawMarkup(xmlArrivi[k].nome)
          /\ NoRawMarkup(xmlArrivi[k].cittadinanza)
          /\ NoRawMarkup(xmlArrivi[k].statoresidenza)
          /\ NoRawMarkup(xmlArrivi[k].luogoresidenza)
          /\ NoRawMarkup(xmlArrivi[k].datanascita)
          /\ NoRawMarkup(xmlArrivi[k].statonascita)
          /\ NoRawMarkup(xmlArrivi[k].comunenascita)
    /\ xmlRoss # None =>
          /\ NoRawMarkup(xmlRoss.prenotazione.statoprovenienza)
          /\ NoRawMarkup(xmlRoss.prenotazione.comuneprovenienza)

----------------------------------------------------------------------------
(* Further claims about the primary export (SpecFormat) and the handler's   *)
(* rejections (SpecRequest)                                                 *)

\* the five role codes: single guest, head of family, head of group, family
\* member, group member
FiveRoleCodes == {<<"1", "6">>, <<"1", "7">>, <<"1", "8">>, <<"1", "9">>, <<"2", "0">>}

(* C16: the role slot of every line of the primary export holds one of the  *)
(* five role codes "16", "17", "18", "19", "20", whatever tipoAlloggiato    *)
(* the guest records carry.                                                 *)
C16_RoleInFiveCodes ==
    \A k \in 1..Len(lines) : lines[k].tipo \in FiveRoleCodes

\* a request rejected for its method, its input, the rate limit or the
\* missing secret
RejectedRequest(v) ==
    \/ Answered(v, 405)
    \/ Answered(v, 400)
    \/ Answered(v, 429)
    \/ Answered(v, 500) /\ v.resp.error = "Missing RESEND_API_KEY"

(* C17: a request answered 405, 400, 429 or 500 for the missing secret      *)
(* leaves the rate limiter's map as it was: every key has the same count    *)
(* and the same window start after the request as before it.                *)
C17_RejectionNoEffect ==
    [][\A p \in Procs :
          (inv'[p] # inv[p] /\ RejectedRequest(inv'[p])) =>
              rateLimitMap' = rateLimitMap]_vars

(* C18: every line of the primary export has exactly 168 characters, for    *)
(* every value of every guest field, a date of birth of three segments of   *)
(* any lengths included, and the n lines are joined by CRLF with nothing    *)
(* after the last.                                                          *)
C18_Line168 ==
    /\ \A k \in 1..Len(lines) : Len(LineText(lines[k])) = 168
    /\ finalTxt # None =>
          LET n == Len(lines)
          IN /\ Len(finalTxt.v) = 168 * n + 2 * (n - 1)
             /\ \A j \in 1..n :
                   SubSeq(finalTxt.v, 170 * (j - 1) + 1, 170 * (j - 1) + 168)
                      = LineText(lines[j])
             /\ \A j \in 1..(n - 1) :
                   /\ finalTxt.v[170 * j - 1] = "\r"
                   /\ finalTxt.v[170 * j] = "\n"

----------------------------------------------------------------------------
(* Two invocations of the handler in one process: one may run while the     *)
(* other is suspended at await fetch or await resendRes.json()              *)

\* a POST that passes every check, so that its invocation is suspended at
\* the awaits of the outbound call
ConcRequest == Request("POST", <<"203.0.113.7", "10.0.0.1">>, "", ValidBody)

ConcNext ==
    \/ nreq < MaxRequests /\ \E p \in Procs : Receive(p, ConcRequest)
    \/ \E p \in Procs : FetchSettles(p, Answer(200, TRUE))
    \/ \E p \in Procs : JsonSettles(p)
    \/ ticks < MaxTicks /\ Tick(RATE_LIMIT_WINDOW + 1)

SpecConc == RateInit /\ [][ConcNext]_vars

(* C19: under every interleaving of the invocations, for every key and      *)
(* every window at most RATE_LIMIT_MAX (10) POSTs go past the rate-limit    *)
(* check, and the key's record counts every POST of the window: an          *)
(* invocation that is not answered 429 is among the first 10 POSTs of its   *)
(* key's window.                                                            *)
C19_NeverUndercounts ==
    /\ \A ip \in DOMAIN seen :
          /\ seen[ip].adm <= RATE_LIMIT_MAX
          /\ ip \in DOMAIN rateLimitMap
          /\ rateLimitMap[ip].count = seen[ip].n
          /\ rateLimitMap[ip].firstRequest = seen[ip].start
    /\ \A p \in Procs :
          (inv[p].pc # "idle" /\ ~Answered(inv[p], 429)) =>
              inv[p].ord <= RATE_LIMIT_MAX

\* the 11th POST of a window is answered 429 on one invocation while the
\* other, admitted as the 10th, is still suspended at an await
C19_Witness_Suspended ==
    /\ inv[1].pc \in {"fetch", "json"}
    /\ inv[1].ord = RATE_LIMIT_MAX
    /\ Answered(inv[2], 429)
    /\ inv[2].ord = RATE_LIMIT_MAX + 1
    /\ getRateLimitKey(inv[1].req) = getRateLimitKey(inv[2].req)
    /\ inv[1].at = inv[2].at

=============================================================================
